---- MODULE Spec2Model ----
(***************************************************************************)
(* My-Life-Log: the day-log store, the month-goals store and the to-do     *)
(* carry-over, as implemented by the two application roots of the          *)
(* repository:                                                             *)
(*   - src/src/components/ui/calendar.tsx  (App with month goals, cleaning,*)
(*     expense items, carryOverTodosToTomorrow)            root "calendar" *)
(*   - src/src/App.tsx  (App with saveDay / saveAll / carryOverTodos)      *)
(*                                                         root "App"      *)
(* One event handler (click, select) is one action; the effects React runs *)
(* after the handler's re-render are part of the action.                   *)
(***************************************************************************)
EXTENDS Integers, Sequences, FiniteSets, TLC

VARIABLES
  root,           \* which App component is mounted: "calendar" or "App"
  date,           \* the selected date (useState date)
  logs,           \* in-memory day-log mapping (logs / allLogs), insertion ordered
  monthGoalsAll,  \* in-memory month-goals mapping, insertion ordered
  localStorage,   \* the durable string-keyed store: slot -> content
  showGoalSetup,  \* whether the goal-setup prompt is rendered
  currentTodos,   \* the form's working to-do list (currentTodos / todos)
  expenseItems,   \* the form's working expense list (expenseItems / expenses)
  cleaningState,  \* the form's cleaning marks (calendar.tsx)
  memo,           \* the form's memo field
  circle,         \* the props of a rendered ProgressCircle: value and goal
  photo,          \* the photo shown for the selected day ("" for none)
  isEditingPhoto, \* whether the upload control is offered
  photoDB,        \* IndexedDB object store "photos": day key -> data URL
  photoOps,       \* photo-storage operations in flight
  clock,          \* Date.now(), milliseconds
  failures,       \* how many localStorage.setItem calls have thrown so far
  h               \* the last step: handler name and what it did to the outside

\* the photo of a day, its storage and the operations on it
photoVars == <<photo, isEditingPhoto, photoDB, photoOps>>

\* what no handler of the day log or of the goals touches
aside == <<circle, photo, isEditingPhoto, photoDB>>

vars == <<root, date, logs, monthGoalsAll, localStorage, showGoalSetup,
          currentTodos, expenseItems, cleaningState, memo, circle, photoVars, clock,
          failures, h>>

-----------------------------------------------------------------------------
(* Bounds of the model *)

\* Date.now() readings range over 0..MaxClock
MaxClock == 4
\* how many to-do items the store may hold over all days
MaxTodos == 3
\* how many durable writes may fail in one run
MaxFailures == 1
\* how many to-do items the store holds in the specifications of a short session
FewTodos == 2
\* how many expense items the store may hold over all days
MaxExpenses == 2
\* how many days after the first one the instants of the day-key
\* specification cover (Dec 30 2023 to Mar 2 2024)
MaxDay == 63
\* how many asynchronous photo operations are in flight at once
MaxPending == 2

-----------------------------------------------------------------------------
(* Program constants *)

STEPS_GOAL_DEFAULT == 10000
STUDY_GOAL_DEFAULT == 120

DEFAULT_GOALS == [stepsGoal |-> STEPS_GOAL_DEFAULT, studyGoal |-> STUDY_GOAL_DEFAULT]

STORAGE_LOGS == "my-life-log:logs:v2"
STORAGE_MONTH_GOALS == "my-life-log:month-goals:v1"
STORAGE_KEY == "life-log-v1"

Slots == {STORAGE_LOGS, STORAGE_MONTH_GOALS, STORAGE_KEY}

-----------------------------------------------------------------------------
(* Calendar dates.  A Date is [y, m, d] (local calendar day; m is 1..12). *)

IsLeap(y) == (y % 4 = 0 /\ y % 100 # 0) \/ y % 400 = 0

DaysInMonth(y, m) ==
  IF m = 2 THEN (IF IsLeap(y) THEN 29 ELSE 28)
  ELSE IF m \in {4, 6, 9, 11} THEN 30 ELSE 31

\* the dates the calendar grid lets the user select in this model
Dates == { [y |-> 2023, m |-> 12, d |-> 31], [y |-> 2024, m |-> 1, d |-> 1] }

Today == [y |-> 2023, m |-> 12, d |-> 31]

\* d.toDateString(): "Sun Dec 31 2023"; weekday and month name are functions of
\* (year, month, day), so the string is represented by that triple.
dayKey(d) == <<d.y, d.m, d.d>>

\* `${d.getFullYear()}-${String(d.getMonth() + 1).padStart(2, "0")}`
monthKey(d) == <<d.y, d.m>>

\* a next day that does not roll over at the end of the month
Tomorrow_sameMonth(d) == [d EXCEPT !.d = d.d + 1]

\* tomorrow = new Date(date); tomorrow.setDate(date.getDate() + 1)
\* (setDate past the month's last day rolls over into the next month / year)
Tomorrow(d) ==
  IF d.d + 1 <= DaysInMonth(d.y, d.m) THEN [d EXCEPT !.d = d.d + 1]
  ELSE IF d.m < 12 THEN [y |-> d.y, m |-> d.m + 1, d |-> 1]
  ELSE [y |-> d.y + 1, m |-> 1, d |-> 1]

-----------------------------------------------------------------------------
(* JS objects used as mappings: a sequence of entries [k, v] in insertion   *)
(* order (string keys of a JS object enumerate in insertion order).         *)

Keys(m) == { m[i].k : i \in DOMAIN m }

Has(m, k) == k \in Keys(m)

IndexOf(m, k) == CHOOSE i \in DOMAIN m : m[i].k = k

\* m[k]  (only used where Has(m, k))
At(m, k) == m[IndexOf(m, k)].v

\* { [k]: v }: a spread that forgets the other keys
Put_alone(m, k, v) == <<[k |-> k, v |-> v]>>

\* { ...m, [k]: v }: an existing key keeps its position, a new key is appended
Put(m, k, v) ==
  IF Has(m, k)
  THEN [i \in DOMAIN m |-> IF m[i].k = k THEN [k |-> k, v |-> v] ELSE m[i]]
  ELSE Append(m, [k |-> k, v |-> v])

-----------------------------------------------------------------------------
(* DayLog: every field optional.  `has` is the set of keys the object      *)
(* holds; a field outside `has` carries a fixed filler.                     *)

Fields == {"todos", "steps", "memo", "expenses", "cleaning"}

EmptyLog ==
  [has |-> {}, todos |-> <<>>, steps |-> 0, memo |-> "", expenses |-> <<>>,
   cleaning |-> <<>>]

\* logs[k] || {}
LogOf(m, k) == IF Has(m, k) THEN At(m, k) ELSE EmptyLog

\* Array.isArray(d.todos) ? d.todos : []     (also  l.todos || [])
TodosOf(l) == IF "todos" \in l.has THEN l.todos ELSE <<>>

\* an update that stores the partial in place of the day's log
Merge_replace(prev, partial) == partial

\* { ...prev, ...partial }
Merge(prev, partial) ==
  [has   |-> prev.has \cup partial.has,
   todos |-> IF "todos" \in partial.has THEN partial.todos ELSE prev.todos,
   steps |-> IF "steps" \in partial.has THEN partial.steps ELSE prev.steps,
   memo  |-> IF "memo" \in partial.has THEN partial.memo ELSE prev.memo,
   expenses |-> IF "expenses" \in partial.has THEN partial.expenses
                ELSE prev.expenses,
   cleaning |-> IF "cleaning" \in partial.has THEN partial.cleaning
                ELSE prev.cleaning]

\* Array.isArray(v.expenses) ? v.expenses : []
ExpensesOf(l) == IF "expenses" \in l.has THEN l.expenses ELSE <<>>

\* d.cleaning || {}
CleaningOf(l) == IF "cleaning" \in l.has THEN l.cleaning ELSE <<>>

TodosPartial(list) == [EmptyLog EXCEPT !.has = {"todos"}, !.todos = list]
StepsPartial(n) == [EmptyLog EXCEPT !.has = {"steps"}, !.steps = n]
MemoPartial(s) == [EmptyLog EXCEPT !.has = {"memo"}, !.memo = s]
ExpensesPartial(list) == [EmptyLog EXCEPT !.has = {"expenses"}, !.expenses = list]
CleaningPartial(c) == [EmptyLog EXCEPT !.has = {"cleaning"}, !.cleaning = c]

-----------------------------------------------------------------------------
(* Sequence helpers *)

\* list.filter(t => !t.done)
Pending(list) == SelectSeq(list, LAMBDA t : ~t.done)
\* list.filter(t => t.done)
Done(list) == SelectSeq(list, LAMBDA t : t.done)

\* number of to-do items over all stored days (used by the bound only)
RECURSIVE TotalTodos(_)
TotalTodos(m) == IF m = <<>> THEN 0 ELSE Len(TodosOf(Head(m).v)) + TotalTodos(Tail(m))

Ids(list) == { list[i].id : i \in DOMAIN list }

\* currentTodos.every(t => t.done)
AllDone(list) == \A i \in DOMAIN list : list[i].done

-----------------------------------------------------------------------------
(* Text input.  A string is a sequence of one-character strings.            *)

SP == " "

RECURSIVE TrimStart(_)
TrimStart(s) == IF s # <<>> /\ Head(s) = SP THEN TrimStart(Tail(s)) ELSE s

RECURSIVE TrimEnd(_)
TrimEnd(s) ==
  IF s # <<>> /\ s[Len(s)] = SP THEN TrimEnd(SubSeq(s, 1, Len(s) - 1)) ELSE s

\* s.trim()
Trim(s) == TrimEnd(TrimStart(s))

\* what the user may have typed into the to-do text box
TodoInputs == { <<>>, <<SP>>, <<"a">>, <<SP, "b">> }

-----------------------------------------------------------------------------
(* Typed numbers.  A number that comes from an <input type="number"> is     *)
(* represented by twice its value (so that x.5 is expressible): 2.5 is 5.   *)
(* A typed string is [k, n]: k = "empty" for "", "text" for a string that   *)
(* Number() cannot parse, "num" for a decimal literal of value n/2.         *)
(* (type="number" sanitises its value, so no literal overflows to Infinity.)*)

Empty == [k |-> "empty", n |-> 0]
Text == [k |-> "text", n |-> 0]
Num(n) == [k |-> "num", n |-> n]

\* the JS value of an integer
FromInt(i) == i + i

\* NaN
NaN == [nan |-> TRUE, n |-> 0]
Val(n) == [nan |-> FALSE, n |-> n]

\* Number(s): "" is 0, an unparsable string is NaN
Number(s) == IF s.k = "text" THEN NaN ELSE Val(s.n)

\* x || d   (NaN and 0 are falsy)
OrElse(x, d) == IF x.nan \/ x.n = 0 THEN d ELSE x

\* a coercion that forgets to round
MathFloor_none(x) == x

\* Math.floor(x), x not NaN
MathFloor(x) == Val(FromInt(x.n \div 2))

\* Math.max(a, b), neither NaN
MathMax(a, b) == IF a.n >= b.n THEN a ELSE b

\* Number.isFinite(x) ? x : 0
FiniteOrZero(x) == IF x.nan THEN Val(0) ELSE x

IsInteger(n) == n % 2 = 0

-----------------------------------------------------------------------------
(* ProgressCircle *)

\* a number that may be NaN or infinite
Finite(n) == [k |-> "num", n |-> n]
NotANumber == [k |-> "nan", n |-> 0]
Infinity == [k |-> "inf", n |-> 0]
MinusInfinity == [k |-> "-inf", n |-> 0]

\* floor(a / b), b # 0
FloorDiv(a, b) == IF b > 0 THEN a \div b ELSE (0 - a) \div (0 - b)

\* Math.round((value / goal) * 100): the quotient is infinite or NaN when goal
\* is 0; Math.round(x) is floor(x + 0.5)
RoundedPercent(value, goal) ==
  IF goal = 0
  THEN IF value > 0 THEN Infinity ELSE IF value < 0 THEN MinusInfinity ELSE NotANumber
  ELSE Finite(FloorDiv(200 * value + goal, 2 * goal))

\* Math.min(a, 100)
MinWith100(a) ==
  CASE a.k = "nan" -> a
    [] a.k = "inf" -> Finite(100)
    [] a.k = "-inf" -> a
    [] OTHER -> IF a.n <= 100 THEN a ELSE Finite(100)

\* Math.max(a, 0)
MaxWith0(a) ==
  CASE a.k = "nan" -> a
    [] a.k = "inf" -> a
    [] a.k = "-inf" -> Finite(0)
    [] OTHER -> IF a.n >= 0 THEN a ELSE Finite(0)

\* what a rendered circle shows: the fill passed to CircularProgressbar and
\* the percent of its label
Circle(value, goal, percent, fill) ==
  [value |-> value, goal |-> goal, percent |-> percent, fill |-> fill]

\* calendar.tsx ProgressCircle: percent = goal > 0 ? Math.round(...) : 0;
\* value={Math.min(Math.max(percent, 0), 100)} text={`${percent}%`}
ProgressCircle(value, goal) ==
  LET percent == IF goal > 0 THEN RoundedPercent(value, goal) ELSE Finite(0)
  IN Circle(value, goal, percent, MinWith100(MaxWith0(percent)))

\* App.tsx ProgressCircle: percent = Math.round((value / goal) * 100);
\* value={Math.min(percent, 100)} text={`${percent}%`}
App_ProgressCircle(value, goal) ==
  LET percent == RoundedPercent(value, goal)
  IN Circle(value, goal, percent, MinWith100(percent))

-----------------------------------------------------------------------------
(* Durable key-value store.  A slot is [set, text]: getItem returns null    *)
(* when set is FALSE.  JSON text of a mapping is represented by the list of *)
(* its <<key, value>> members in the order JSON.stringify emits them.       *)

NoItem == [set |-> FALSE, kind |-> "absent", text |-> <<>>]

\* a slot holding the JSON text of a mapping
Stored(text) == [set |-> TRUE, kind |-> "object", text |-> text]

\* a slot holding a text that is not the JSON of a mapping: "malformed" (not
\* JSON at all), "null", "number" (5) or "list" ([])
Junk(kind) == [set |-> TRUE, kind |-> kind, text |-> <<>>]

\* JSON.stringify of one value of a mapping: a DayLog is written with the keys
\* it holds and nothing else; a MonthGoals object with its two numbers
JSONvalue(v) ==
  IF "has" \in DOMAIN v
  THEN [has   |-> v.has,
        todos |-> IF "todos" \in v.has THEN v.todos ELSE <<>>,
        steps |-> IF "steps" \in v.has THEN v.steps ELSE 0,
        memo  |-> IF "memo" \in v.has THEN v.memo ELSE "",
        expenses |-> IF "expenses" \in v.has THEN v.expenses ELSE <<>>,
        cleaning |-> IF "cleaning" \in v.has THEN v.cleaning ELSE <<>>]
  ELSE v

\* JSON.stringify(mapping)
JSONstringify(m) == [i \in DOMAIN m |-> <<m[i].k, JSONvalue(m[i].v)>>]

\* JSON.parse(text)
JSONparse(t) == [i \in DOMAIN t |-> [k |-> t[i][1], v |-> t[i][2]]]

\* safeParse(localStorage.getItem(slot), {})   /   loadAll()
\* a missing item and a text JSON.parse throws on give the fallback {}; a
\* number or an empty list is returned as parsed and reads as a mapping without
\* entries (x[k] is undefined, Object.entries(x) is empty, {...x} is {})
safeParse(item) == IF item.set /\ item.kind = "object" THEN JSONparse(item.text) ELSE <<>>

\* JSON.parse("null") succeeds and returns null, which is passed on as the store
ParsesToNull(item) == item.set /\ item.kind = "null"

\* localStorage.setItem(slot, JSON.stringify(m)); ok = FALSE: setItem throws
\* (quota exceeded) and the slot keeps its content
setItem(ls, slot, m, ok) ==
  IF ok THEN [ls EXCEPT ![slot] = Stored(JSONstringify(m))]
  ELSE ls

\* the slot the mounted root keeps its day-log store in
LogsSlot(r) == IF r = "calendar" THEN STORAGE_LOGS ELSE STORAGE_KEY

-----------------------------------------------------------------------------
(* Record of the last step: the handler's name, what the user had typed,   *)
(* the number of setItem calls it issued, whether the write succeeded,      *)
(* whether alert() was shown and whether an exception left the handler.     *)

HI(op, input, writes, ok, alerted, threw) ==
  [op |-> op, input |-> input, writes |-> writes, ok |-> ok, alerted |-> alerted,
   threw |-> threw]

H(op, writes, ok, alerted, threw) == HI(op, <<>>, writes, ok, alerted, threw)

\* the handler returned before touching anything
Returned(op) == H(op, 0, TRUE, FALSE, FALSE)

\* a setItem call may throw (quota exceeded) while the failure budget lasts
WriteOutcome(ok) ==
  /\ ok \/ failures < MaxFailures
  /\ failures' = IF ok THEN failures ELSE failures + 1

-----------------------------------------------------------------------------
(* Effects run after a handler's re-render (calendar.tsx)                   *)

\* an effect that only ever hides the prompt
GoalEffect_hideOnly(ran, shown, goals, d) ==
  IF ran /\ Has(goals, monthKey(d)) THEN FALSE ELSE shown

\* useEffect(..., [mk, monthGoalsAll]): runs when the month key or the goals
\* object changed; otherwise the prompt flag is what the handler left
GoalEffect(ran, shown, goals, d) ==
  IF ran THEN ~Has(goals, monthKey(d)) ELSE shown

\* useEffect(..., [dk, logs]) / useEffect(..., [date]): the form's working list
\* is reloaded from the stored day
FormEffect(m, d) == TodosOf(LogOf(m, dayKey(d)))

\* a form that never reloads the expense list
FormExpenses_none(m, d) == <<>>

\* the same effects: setExpenseItems(Array.isArray(d.expenses) ? ... : [])
FormExpenses(m, d) == ExpensesOf(LogOf(m, dayKey(d)))

\* useEffect(..., [dk, logs]): setCleaningState(d.cleaning || {})
FormCleaning(m, d) == CleaningOf(LogOf(m, dayKey(d)))

\* setMemo(d.memo || "")     (also  setMemo(l.memo || ""))
FormMemo(m, d) ==
  LET l == LogOf(m, dayKey(d)) IN IF "memo" \in l.has THEN l.memo ELSE ""

\* an asynchronous photo operation in flight: a file "read", or a storage
\* "get", "put" or "delete", for a day key
\* ("put" carries the data URL)
PhotoOp(op, key, data) == [op |-> op, key |-> key, data |-> data]

\* useEffect(..., [dk, logs]) as a whole: the form is reloaded from the stored
\* day and the photo read getPhotoFromDB(dk) is started
RunFormEffect(m, d) ==
  /\ currentTodos' = FormEffect(m, d)
  /\ expenseItems' = FormExpenses(m, d)
  /\ cleaningState' = FormCleaning(m, d)
  /\ memo' = FormMemo(m, d)
  /\ photoOps' = photoOps \cup {PhotoOp("get", dayKey(d), "")}

-----------------------------------------------------------------------------
(* Initial state: both slots missing, so both mappings load as {}; the     *)
(* mount effects have run (the prompt is shown because no goals exist).    *)

\* the first render reads logs[dk] (calendar.tsx 317; App.tsx 108, 200) and
\* monthGoalsAll[mk] (calendar.tsx 301): a TypeError when the store is null
MountThrows(r, ls) ==
  \/ ParsesToNull(ls[LogsSlot(r)])
  \/ r = "calendar" /\ ParsesToNull(ls[STORAGE_MONTH_GOALS])

\* the state after root r has mounted over the local storage ls; when the
\* first render throws nothing is shown and no handler can run
MountState(r, ls) ==
  LET l == safeParse(ls[LogsSlot(r)])
      g == safeParse(ls[STORAGE_MONTH_GOALS])
  IN [ logs |-> l,
       monthGoalsAll |-> g,
       showGoalSetup |-> GoalEffect(r = "calendar", FALSE, g, Today),
       currentTodos |-> FormEffect(l, Today),
       expenseItems |-> FormExpenses(l, Today),
       cleaningState |-> FormCleaning(l, Today),
       memo |-> FormMemo(l, Today),
       circle |-> IF r = "calendar"
                  THEN ProgressCircle(0, FromInt(STEPS_GOAL_DEFAULT))
                  ELSE App_ProgressCircle(0, FromInt(STEPS_GOAL_DEFAULT)),
       photoOps |-> IF r = "calendar" /\ ~MountThrows(r, ls)
                    THEN {PhotoOp("get", dayKey(Today), "")} ELSE {},
       h |-> IF MountThrows(r, ls) THEN H("mount", 0, TRUE, FALSE, TRUE)
             ELSE Returned("mount") ]

MountedApp(r, ls) ==
  /\ root = r
  /\ date = Today
  /\ localStorage = ls
  /\ logs = MountState(r, ls).logs
  /\ monthGoalsAll = MountState(r, ls).monthGoalsAll
  /\ showGoalSetup = MountState(r, ls).showGoalSetup
  /\ currentTodos = MountState(r, ls).currentTodos
  /\ expenseItems = MountState(r, ls).expenseItems
  /\ cleaningState = MountState(r, ls).cleaningState
  /\ memo = MountState(r, ls).memo
  /\ circle = MountState(r, ls).circle
  /\ photo = ""
  /\ isEditingPhoto = TRUE
  /\ photoDB = <<>>
  /\ photoOps = MountState(r, ls).photoOps
  /\ clock = 0
  /\ failures = 0

Mounted(r, ls) == MountedApp(r, ls) /\ h = MountState(r, ls).h

\* root r is mounted and rendering
Running(r) == root = r /\ ~(h.op = "mount" /\ h.threw)

\* a first visit: nothing is stored
FirstVisit == [s \in Slots |-> NoItem]

Init == \E r \in {"calendar", "App"} : Mounted(r, FirstVisit)

\* a first visit of the calendar.tsx root
InitCalendar == Init /\ root = "calendar"

-----------------------------------------------------------------------------
(* Time.  Some time passes before an event: the handler reads Date.now()   *)
(* at some `now` >= clock.                                                  *)

Nows == clock..MaxClock

\* a handler that read Date.now() at `last` ends at least one millisecond
\* before the next event starts
Elapse(last) == last < MaxClock /\ clock' = last + 1

-----------------------------------------------------------------------------
(* Date selection *)

\* onSelect={(d) => { if (d) setDate(d); }}; then both effects
onSelect(d) ==
  /\ Running("calendar")
  /\ d # date
  /\ date' = d
  /\ showGoalSetup' = GoalEffect(monthKey(d) # monthKey(date), showGoalSetup,
                                 monthGoalsAll, d)
  /\ RunFormEffect(logs, d)
  /\ h' = Returned("onSelect")
  /\ UNCHANGED <<root, logs, monthGoalsAll, localStorage, clock, failures, aside>>

\* onSelect={setDate}; then useEffect(..., [date])
App_onSelect(d) ==
  /\ Running("App")
  /\ d # date
  /\ date' = d
  /\ currentTodos' = FormEffect(logs, d)
  /\ expenseItems' = FormExpenses(logs, d)
  /\ memo' = FormMemo(logs, d)
  /\ h' = Returned("App_onSelect")
  /\ UNCHANGED <<root, logs, monthGoalsAll, localStorage, showGoalSetup, clock,
                 failures, cleaningState, aside, photoOps>>

-----------------------------------------------------------------------------
(* Day-log store: update *)

\* next = { ...logs, [dk]: { ...(logs[dk] || {}), ...partial } }
updateDayNext(m, d, partial) ==
  Put(m, dayKey(d), Merge(LogOf(m, dayKey(d)), partial))

\* a saveLogs that serialises the `logs` of the render it was created in
saveLogsItem_stale(next) == logs

\* what saveLogs hands to setItem: JSON.stringify(next)
saveLogsItem(next) == next

\* saveLogs(next): setLogs(next); try { setItem } catch { warn; alert }
\* followed by the [dk, logs] effect
saveLogs(op, next, ok) ==
  /\ WriteOutcome(ok)
  /\ logs' = next
  /\ localStorage' = setItem(localStorage, STORAGE_LOGS, saveLogsItem(next), ok)
  /\ RunFormEffect(next, date)
  /\ h' = H(op, 1, ok, ~ok, FALSE)

\* updateDay(partial)
updateDay(op, partial, ok) == saveLogs(op, updateDayNext(logs, date, partial), ok)

\* saveAll(data): setItem is not guarded, so a failing write throws
\* saveDay(partial): setAllLogs(next); saveAll(next) -- the state update is
\* queued before the throw and is applied by the re-render
App_saveDay(op, partial, ok) ==
  /\ WriteOutcome(ok)
  /\ logs' = updateDayNext(logs, date, partial)
  /\ localStorage' = setItem(localStorage, STORAGE_KEY, logs', ok)
  /\ h' = H(op, 1, ok, FALSE, ~ok)

-----------------------------------------------------------------------------
(* To-do handlers, calendar.tsx *)

\* [...currentTodos, { id: Date.now(), text: todoText.trim(), done: false }]
addTodoNext(list, text, now) ==
  Append(list, [id |-> now, text |-> Trim(text), done |-> FALSE])

addTodo(text) ==
  /\ Running("calendar")
  /\ IF Trim(text) = <<>>
     THEN /\ h' = Returned("addTodo")
          /\ UNCHANGED <<logs, localStorage, currentTodos, expenseItems,
                         cleaningState, memo, photoOps, clock, failures>>
     ELSE /\ TotalTodos(logs) < MaxTodos
          /\ \E now \in Nows, ok \in BOOLEAN :
               /\ Elapse(now)
               /\ updateDay("addTodo", TodosPartial(addTodoNext(currentTodos, text, now)), ok)
  /\ UNCHANGED <<root, date, monthGoalsAll, showGoalSetup, aside>>

\* currentTodos.map(t => t.id === id ? { ...t, done: !t.done } : t)
toggleTodoNext(list, id) ==
  [i \in DOMAIN list |->
     IF list[i].id = id THEN [list[i] EXCEPT !.done = ~list[i].done] ELSE list[i]]

toggleTodo(id) ==
  /\ Running("calendar")
  /\ id \in Ids(currentTodos)
  /\ \E ok \in BOOLEAN :
       updateDay("toggleTodo", TodosPartial(toggleTodoNext(currentTodos, id)), ok)
  /\ UNCHANGED <<root, date, monthGoalsAll, showGoalSetup, clock, aside>>

\* currentTodos.filter(t => t.id !== id)
deleteTodoNext(list, id) == SelectSeq(list, LAMBDA t : t.id # id)

deleteTodo(id) ==
  /\ Running("calendar")
  /\ id \in Ids(currentTodos)
  /\ \E ok \in BOOLEAN :
       updateDay("deleteTodo", TodosPartial(deleteTodoNext(currentTodos, id)), ok)
  /\ UNCHANGED <<root, date, monthGoalsAll, showGoalSetup, clock, aside>>

-----------------------------------------------------------------------------
(* Carry-over, calendar.tsx *)

\* the Date.now() reading of the idx-th map callback (idx from 1): the clock may
\* move on by one millisecond after the first `split` callbacks
Reading(now, split, idx) == IF idx <= split THEN now ELSE now + 1

\* pending.map((t, idx) => ({ ...t, id: Date.now() + idx }))
carried(pending, now, split) ==
  [i \in DOMAIN pending |->
     [pending[i] EXCEPT !.id = Reading(now, split, i) + (i - 1)]]

\* a carry-over without the early return
NothingPending_never(list) == FALSE

\* const pending = currentTodos.filter(t => !t.done);
\* if (pending.length === 0) return;
NothingPending(list) == Len(Pending(list)) = 0

\* nextTodayTodos = currentTodos.filter(t => t.done)
nextTodayTodos(list) == Done(list)

\* nextTomorrowTodos = [...existingTomorrow, ...carried]
nextTomorrowTodos(existingTomorrow, carriedItems) == existingTomorrow \o carriedItems

\* nextAll = { ...logs, [dk]: {...(logs[dk]||{}), todos: nextTodayTodos},
\*             [tKey]: {...tomorrowLog, todos: nextTomorrowTodos} }
carryOverNextAll(m, d, list, now, split) ==
  LET dk == dayKey(d)
      tKey == dayKey(Tomorrow(d))
      tomorrowLog == LogOf(m, tKey)
      existingTomorrow == TodosOf(tomorrowLog)
  IN Put(Put(m, dk, Merge(LogOf(m, dk), TodosPartial(nextTodayTodos(list)))),
         tKey, Merge(tomorrowLog,
                     TodosPartial(nextTomorrowTodos(existingTomorrow,
                                    carried(Pending(list), now, split)))))

carryOverTodosToTomorrow ==
  /\ Running("calendar")
  /\ IF NothingPending(currentTodos)
     THEN /\ h' = Returned("carryOverTodosToTomorrow")
          /\ UNCHANGED <<logs, localStorage, currentTodos, expenseItems,
                         cleaningState, memo, photoOps, clock, failures>>
     ELSE \E now \in Nows, split \in 0..Len(Pending(currentTodos)), ok \in BOOLEAN :
          /\ Elapse(Reading(now, split, Len(Pending(currentTodos))))
          /\ saveLogs("carryOverTodosToTomorrow",
                      carryOverNextAll(logs, date, currentTodos, now, split), ok)
  /\ UNCHANGED <<root, date, monthGoalsAll, showGoalSetup, aside>>

-----------------------------------------------------------------------------
(* To-do handlers and carry-over, App.tsx *)

\* [...todos, { id: Date.now(), text: todoText, done: false }]
App_addTodoNext(list, text, now) ==
  Append(list, [id |-> now, text |-> text, done |-> FALSE])

\* setTodos(next) precedes saveDay, so the working list changes even if the
\* write throws
App_addTodo(text) ==
  /\ Running("App")
  /\ IF Trim(text) = <<>>
     THEN /\ h' = Returned("App_addTodo")
          /\ UNCHANGED <<logs, localStorage, currentTodos, clock, failures>>
     ELSE /\ TotalTodos(logs) < MaxTodos
          /\ \E now \in Nows, ok \in BOOLEAN :
               /\ Elapse(now)
               /\ currentTodos' = App_addTodoNext(currentTodos, text, now)
               /\ App_saveDay("App_addTodo", TodosPartial(currentTodos'), ok)
  /\ UNCHANGED <<root, date, monthGoalsAll, showGoalSetup, expenseItems,
                 cleaningState, memo, aside, photoOps>>

App_toggleTodo(id) ==
  /\ Running("App")
  /\ id \in Ids(currentTodos)
  /\ currentTodos' = toggleTodoNext(currentTodos, id)
  /\ \E ok \in BOOLEAN :
       App_saveDay("App_toggleTodo", TodosPartial(currentTodos'), ok)
  /\ UNCHANGED <<root, date, monthGoalsAll, showGoalSetup, clock, expenseItems,
                 cleaningState, memo, aside, photoOps>>

\* nextAll = { ...allLogs, [tKey]: { ...(allLogs[tKey] || {}),
\*               todos: [...(allLogs[tKey]?.todos || []), ...unfinished] } }
App_carryOverNextAll(m, d, list) ==
  LET tKey == dayKey(Tomorrow(d))
  IN Put(m, tKey, Merge(LogOf(m, tKey),
                        TodosPartial(TodosOf(LogOf(m, tKey)) \o Pending(list))))

\* unfinished = todos.filter(t => !t.done); if (unfinished.length === 0) return;
\* setAllLogs(nextAll); saveAll(nextAll)
\* (the copies add to the store, which holds at most MaxTodos items)
App_carryOverTodos ==
  /\ Running("App")
  /\ IF Len(Pending(currentTodos)) = 0
     THEN /\ h' = Returned("App_carryOverTodos")
          /\ UNCHANGED <<logs, localStorage, failures>>
     ELSE \E ok \in BOOLEAN :
          /\ TotalTodos(logs) + Len(Pending(currentTodos)) <= MaxTodos
          /\ WriteOutcome(ok)
          /\ logs' = App_carryOverNextAll(logs, date, currentTodos)
          /\ localStorage' = setItem(localStorage, STORAGE_KEY, logs', ok)
          /\ h' = H("App_carryOverTodos", 1, ok, FALSE, ~ok)
  /\ UNCHANGED <<root, date, monthGoalsAll, showGoalSetup, currentTodos, clock,
                 expenseItems, cleaningState, memo, aside, photoOps>>

-----------------------------------------------------------------------------
(* The to-do specification: both roots, all to-do handlers *)

\* the to-do handlers, the user typing one of `texts` before clicking "add"
NextTodoWith(texts) ==
  \/ \E d \in Dates : onSelect(d)
  \/ \E d \in Dates : App_onSelect(d)
  \/ \E t \in texts : addTodo(t)
  \/ \E id \in Ids(currentTodos) : toggleTodo(id)
  \/ \E id \in Ids(currentTodos) : deleteTodo(id)
  \/ carryOverTodosToTomorrow
  \/ \E t \in texts : App_addTodo(t)
  \/ \E id \in Ids(currentTodos) : App_toggleTodo(id)
  \/ App_carryOverTodos

NextTodo == NextTodoWith(TodoInputs)

SpecTodo == Init /\ [][NextTodo]_vars

\* a short session: at most one millisecond passes between two events, and
\* the store never holds more than FewTodos to-do items
Promptly == clock' <= clock + 1 /\ TotalTodos(logs') <= FewTodos

\* the same handlers with one to-do text (and the blank input "add" ignores),
\* used promptly
NextCarry == NextTodoWith({<<SP>>, <<"a">>}) /\ Promptly

SpecCarry == Init /\ [][NextCarry]_vars

-----------------------------------------------------------------------------
(* Scalar fields of the day log, calendar.tsx *)

\* what the user may have typed into the steps box: "", "abc", "2.5", "3"
StepsInputs == { Empty, Text, Num(5), Num(6) }

\* const n = Number(steps); updateDay({ steps: Number.isFinite(n) ? n : 0 })
saveSteps(input) ==
  /\ Running("calendar")
  /\ \E ok \in BOOLEAN :
       updateDay("saveSteps", StepsPartial(FiniteOrZero(Number(input)).n), ok)
  /\ UNCHANGED <<root, date, monthGoalsAll, showGoalSetup, clock, aside>>

MemoInputs == { "", "memo" }

\* the text is typed and saved: updateDay({ memo })
saveMemo(input) ==
  /\ Running("calendar")
  /\ \E ok \in BOOLEAN : updateDay("saveMemo", MemoPartial(input), ok)
  /\ UNCHANGED <<root, date, monthGoalsAll, showGoalSetup, clock, aside>>

\* <Textarea value={memo} onChange={(e) => setMemo(e.target.value)} />
setMemo(input) ==
  /\ Running("calendar")
  /\ memo' = input
  /\ h' = HI("setMemo", input, 0, TRUE, FALSE, FALSE)
  /\ UNCHANGED <<root, date, logs, monthGoalsAll, localStorage, showGoalSetup,
                 currentTodos, expenseItems, cleaningState, clock, failures,
                 aside, photoOps>>

App_setMemo(input) ==
  /\ Running("App")
  /\ memo' = input
  /\ h' = HI("App_setMemo", input, 0, TRUE, FALSE, FALSE)
  /\ UNCHANGED <<root, date, logs, monthGoalsAll, localStorage, showGoalSetup,
                 currentTodos, expenseItems, cleaningState, clock, failures,
                 aside, photoOps>>

\* <Button onClick={() => saveDay({ memo })}>
App_saveMemo ==
  /\ Running("App")
  /\ \E ok \in BOOLEAN : App_saveDay("App_saveMemo", MemoPartial(memo), ok)
  /\ UNCHANGED <<root, date, monthGoalsAll, showGoalSetup, clock, currentTodos,
                 expenseItems, cleaningState, memo, aside, photoOps>>

-----------------------------------------------------------------------------
(* Expense items *)

\* the days the ledger specification selects: two days of one month, a day of
\* the next month (and year), and the same month of the following year
ExpenseDates ==
  { [y |-> 2023, m |-> 12, d |-> 30], [y |-> 2023, m |-> 12, d |-> 31],
    [y |-> 2024, m |-> 1, d |-> 1], [y |-> 2024, m |-> 12, d |-> 31] }

\* what the user may have typed into an amount box:
\* "", "abc", "0", "-3", "0.5", "300.5", "1200"
AmountInputs == { Empty, Text, Num(0), Num(-6), Num(1), Num(601), Num(2400) }

\* what the user may have typed into a note box: " ", "x"
NoteInputs == { <<SP>>, <<"x">> }

\* Math.floor(x), NaN included
Floor(x) == IF x.nan THEN NaN ELSE MathFloor(x)

\* !Number.isFinite(amt) || amt <= 0
AmountRejected(amt) == amt.nan \/ amt.n <= 0

\* number of expense items over all stored days
RECURSIVE TotalExpenses(_)
TotalExpenses(m) ==
  IF m = <<>> THEN 0 ELSE Len(ExpensesOf(Head(m).v)) + TotalExpenses(Tail(m))

\* items.reduce((sum, it) => sum + (Number(it.amount) || 0), 0)
RECURSIVE expenseTotal(_)
expenseTotal(items) ==
  IF items = <<>> THEN 0
  ELSE expenseTotal(SubSeq(items, 1, Len(items) - 1)) + items[Len(items)].amount

\* new Date(k): the calendar day a day key was made from
DateOfKey(k) == [y |-> k[1], m |-> k[2], d |-> k[3]]

\* a comparison that forgets the year
SameMonth_monthOnly(kd, d) == kd.m = d.m

\* kd.getFullYear() === date.getFullYear() && kd.getMonth() === date.getMonth()
SameMonth(kd, d) == kd.y = d.y /\ kd.m = d.m

\* Object.entries(logs).reduce(...): the entries whose decoded year and month
\* are the selected date's add the sum of their expense amounts
RECURSIVE monthlyExpenseTotal(_, _)
monthlyExpenseTotal(m, d) ==
  IF m = <<>> THEN 0
  ELSE LET e == m[Len(m)]
           sum == monthlyExpenseTotal(SubSeq(m, 1, Len(m) - 1), d)
       IN IF ~SameMonth(DateOfKey(e.k), d) THEN sum
          ELSE sum + expenseTotal(ExpensesOf(e.v))

\* { id: Date.now(), amount: amt, note: trimmed note or undefined,
\*   createdAt: Date.now() }   (an absent note is the empty text)
ExpenseItem(id, amt, note, createdAt) ==
  [id |-> id, amount |-> amt, note |-> note, createdAt |-> createdAt]

\* addExpenseItem: amt = Math.floor(Number(expenseAmount)); skipped unless amt
\* is finite and positive; else the item is appended and the day updated
addExpenseItem(amount, note) ==
  /\ Running("calendar")
  /\ LET amt == Floor(Number(amount))
     IN IF AmountRejected(amt)
        THEN /\ h' = Returned("addExpenseItem")
             /\ UNCHANGED <<logs, localStorage, currentTodos, expenseItems,
                            cleaningState, memo, photoOps, clock, failures>>
        ELSE /\ TotalExpenses(logs) < MaxExpenses
             /\ \E now \in Nows, later \in 0..1, ok \in BOOLEAN :
                  /\ Elapse(now + later)
                  /\ updateDay("addExpenseItem",
                               ExpensesPartial(Append(expenseItems,
                                 ExpenseItem(now, amt.n, Trim(note), now + later))),
                               ok)
  /\ UNCHANGED <<root, date, monthGoalsAll, showGoalSetup, aside>>

\* expenseItems.map(it => it.id === editingExpenseId
\*                        ? { ...it, amount: amt, note: ... } : it)
saveEditExpenseNext(items, id, amt, note) ==
  [i \in DOMAIN items |->
     IF items[i].id = id THEN [items[i] EXCEPT !.amount = amt, !.note = note]
     ELSE items[i]]

\* saveEditExpense, for the item whose edit was started (editingExpenseId = id)
saveEditExpense(id, amount, note) ==
  /\ Running("calendar")
  /\ id \in Ids(expenseItems)
  /\ LET amt == Floor(Number(amount))
     IN IF AmountRejected(amt)
        THEN /\ h' = Returned("saveEditExpense")
             /\ UNCHANGED <<logs, localStorage, currentTodos, expenseItems,
                            cleaningState, memo, photoOps, failures>>
        ELSE \E ok \in BOOLEAN :
               updateDay("saveEditExpense",
                         ExpensesPartial(saveEditExpenseNext(expenseItems, id, amt.n,
                                                             Trim(note))),
                         ok)
  /\ UNCHANGED <<root, date, monthGoalsAll, showGoalSetup, clock, aside>>

\* expenseItems.filter(it => it.id !== id)
deleteExpenseItem(id) ==
  /\ Running("calendar")
  /\ id \in Ids(expenseItems)
  /\ \E ok \in BOOLEAN :
       updateDay("deleteExpenseItem",
                 ExpensesPartial(SelectSeq(expenseItems, LAMBDA it : it.id # id)), ok)
  /\ UNCHANGED <<root, date, monthGoalsAll, showGoalSetup, clock, aside>>

\* App.tsx addExpense: amt = Number(expenseAmount); if (!amt) return;
\* the item keeps amt and the note as typed; setExpenses(next); saveDay
App_addExpense(amount, note) ==
  /\ Running("App")
  /\ LET amt == Number(amount)
     IN IF amt.nan \/ amt.n = 0
        THEN /\ h' = Returned("App_addExpense")
             /\ UNCHANGED <<logs, localStorage, expenseItems, clock, failures>>
        ELSE /\ TotalExpenses(logs) < MaxExpenses
             /\ \E now \in Nows, later \in 0..1, ok \in BOOLEAN :
                  /\ Elapse(now + later)
                  /\ expenseItems' = Append(expenseItems,
                                            ExpenseItem(now, amt.n, note, now + later))
                  /\ App_saveDay("App_addExpense", ExpensesPartial(expenseItems'), ok)
  /\ UNCHANGED <<root, date, monthGoalsAll, showGoalSetup, currentTodos,
                 cleaningState, memo, aside, photoOps>>

\* date selection and the handlers that add an expense, of both roots
NextSpendWith(dates, amounts, notes) ==
  \/ \E d \in dates : onSelect(d)
  \/ \E d \in dates : App_onSelect(d)
  \/ \E a \in amounts, n \in notes : addExpenseItem(a, n)
  \/ \E a \in amounts, n \in notes : App_addExpense(a, n)

\* and the handlers that edit and delete one
NextExpenseWith(dates, amounts, notes) ==
  \/ NextSpendWith(dates, amounts, notes)
  \/ \E id \in Ids(expenseItems), a \in amounts, n \in notes :
       saveEditExpense(id, a, n)
  \/ \E id \in Ids(expenseItems) : deleteExpenseItem(id)

\* the day's expenses: amounts "300.5" and "1200" added, edited and deleted on
\* the two days around the new year, in a short session
NextExpense ==
  NextExpenseWith(Dates, {Num(601), Num(2400)}, {<<"x">>}) /\ Promptly

SpecExpense == Init /\ [][NextExpense]_vars

\* the ledger: expenses of 300 and 1200 added over the ledger's days, in a short
\* session
NextLedger ==
  NextSpendWith(ExpenseDates, {Num(601), Num(2400)}, {<<"x">>}) /\ Promptly

SpecLedger == Init /\ [][NextLedger]_vars

\* every kind of typed amount and note, on the two days around the new year
NextAmounts == NextExpenseWith(Dates, AmountInputs, NoteInputs) /\ Promptly

SpecAmounts == Init /\ [][NextAmounts]_vars

-----------------------------------------------------------------------------
(* Cleaning map, calendar.tsx *)

AREA_LIST ==
  <<"veranda", "room", "closet", "toilet", "bath", "washbasin", "kitchen", "entrance">>

\* Object.entries(AREAS): the areas of the map that can be clicked
Areas == { AREA_LIST[i] : i \in DOMAIN AREA_LIST }

\* next = { ...(cleaningState || {}) }; next[area] = !next[area]
toggleAreaNext(c, area) == Put(c, area, ~(Has(c, area) /\ At(c, area)))

toggleArea(area) ==
  /\ Running("calendar")
  /\ \E ok \in BOOLEAN :
       updateDay("toggleArea", CleaningPartial(toggleAreaNext(cleaningState, area)), ok)
  /\ UNCHANGED <<root, date, monthGoalsAll, showGoalSetup, clock, aside>>

\* setCleaningState({}); updateDay({ cleaning: {} })
resetCleaning ==
  /\ Running("calendar")
  /\ \E ok \in BOOLEAN : updateDay("resetCleaning", CleaningPartial(<<>>), ok)
  /\ UNCHANGED <<root, date, monthGoalsAll, showGoalSetup, clock, aside>>

\* every write of the session reaches the disk
Durably == failures' = failures

\* number of keys of the cleaning maps over all stored days
RECURSIVE TotalFlags(_)
TotalFlags(m) ==
  IF m = <<>> THEN 0 ELSE Len(CleaningOf(Head(m).v)) + TotalFlags(Tail(m))

\* the keys of every stored cleaning map are the first areas of AREA_LIST, in
\* that order
InListOrder(m) ==
  \A i \in DOMAIN m :
    LET c == CleaningOf(m[i].v)
    IN Len(c) <= Len(AREA_LIST) /\ \A j \in DOMAIN c : c[j].k = AREA_LIST[j]

\* areas are toggled and reset on the days selected
NextCleaning ==
  \/ \E d \in Dates : onSelect(d)
  \/ \E area \in Areas : toggleArea(area)
  \/ resetCleaning

\* a session that first clicks the areas in the order of AREA_LIST, works on
\* one day mostly, and whose writes succeed
NextCleaningInOrder ==
  /\ NextCleaning
  /\ InListOrder(logs')
  /\ TotalFlags(logs') <= Len(AREA_LIST) + 1
  /\ Durably

SpecCleaning == InitCalendar /\ [][NextCleaningInOrder]_vars

\* the whole day log: handlers that write, delete or reset a field of a day,
\* carry-over and date selection, in a short session of few items
NextKeys ==
  \/ \E d \in Dates : onSelect(d)
  \/ \E d \in Dates : App_onSelect(d)
  \/ \E t \in {<<"a">>} : addTodo(t)
  \/ \E id \in Ids(currentTodos) : deleteTodo(id)
  \/ carryOverTodosToTomorrow
  \/ \E a \in {Num(2400)}, n \in {<<SP>>} : addExpenseItem(a, n)
  \/ \E id \in Ids(expenseItems) : deleteExpenseItem(id)
  \/ resetCleaning
  \/ \E t \in {<<"a">>} : App_addTodo(t)
  \/ App_carryOverTodos
  \/ \E a \in {Num(2400)}, n \in {<<SP>>} : App_addExpense(a, n)

NextKeysBriefly ==
  /\ NextKeys
  /\ Promptly
  /\ Durably
  /\ TotalTodos(logs') + TotalExpenses(logs') <= FewTodos

SpecKeys == Init /\ [][NextKeysBriefly]_vars

-----------------------------------------------------------------------------
(* Photos, calendar.tsx.  A storage call is put in flight by the step that  *)
(* issues it and completes, successfully or not, in a later step.           *)

\* the images the user may pick (data URLs)
DataUrls == {"img1", "img2"}

\* everything but the photo state
besidesPhoto ==
  <<root, date, logs, monthGoalsAll, localStorage, showGoalSetup, currentTodos,
    expenseItems, cleaningState, memo, circle, clock, failures>>

\* store.delete(key)
Remove(m, k) == SelectSeq(m, LAMBDA e : e.k # k)

\* (req.result as string) || ""
Blob(m, k) == IF Has(m, k) THEN At(m, k) ELSE ""

\* the completion of one storage call
Completed(op, o, ok) == HI(op, <<o.key, o.data>>, 0, ok, FALSE, FALSE)

\* handlePhotoUpload: a file is picked (the upload control is rendered while
\* isEditingPhoto holds) and reader.readAsDataURL(file) is started; the
\* callback keeps the dk of the render that created it
handlePhotoUpload(dataUrl) ==
  /\ Running("calendar")
  /\ isEditingPhoto
  /\ photoOps' = photoOps \cup {PhotoOp("read", dayKey(date), dataUrl)}
  /\ h' = HI("handlePhotoUpload", <<dayKey(date), dataUrl>>, 0, TRUE, FALSE, FALSE)
  /\ UNCHANGED <<besidesPhoto, photo, isEditingPhoto, photoDB>>

\* reader.onload: if (!dataUrl) return; setPhoto(dataUrl); then
\* savePhotoToDB(dk, dataUrl) is awaited
readerOnload(o) ==
  /\ o \in photoOps /\ o.op = "read"
  /\ photo' = o.data
  /\ photoOps' = (photoOps \ {o}) \cup {PhotoOp("put", o.key, o.data)}
  /\ h' = Completed("readerOnload", o, TRUE)
  /\ UNCHANGED <<besidesPhoto, isEditingPhoto, photoDB>>

\* savePhotoToDB settles: a failure is caught and logged, the promise resolves
\* either way; the upload then does setIsEditingPhoto(false)
savePhotoToDB(o, ok) ==
  /\ o \in photoOps /\ o.op = "put"
  /\ photoDB' = IF ok THEN Put(photoDB, o.key, o.data) ELSE photoDB
  /\ isEditingPhoto' = FALSE
  /\ photoOps' = photoOps \ {o}
  /\ h' = Completed("savePhotoToDB", o, ok)
  /\ UNCHANGED <<besidesPhoto, photo>>

\* the pencil button over a shown photo: setIsEditingPhoto(true)
editPhoto ==
  /\ Running("calendar")
  /\ photo # "" /\ ~isEditingPhoto
  /\ isEditingPhoto' = TRUE
  /\ h' = Returned("editPhoto")
  /\ UNCHANGED <<besidesPhoto, photo, photoDB, photoOps>>

\* handlePhotoDelete, up to its await (the bin button over a shown photo)
handlePhotoDelete ==
  /\ Running("calendar")
  /\ photo # ""
  /\ photoOps' = photoOps \cup {PhotoOp("delete", dayKey(date), "")}
  /\ h' = HI("handlePhotoDelete", <<dayKey(date), "">>, 0, TRUE, FALSE, FALSE)
  /\ UNCHANGED <<besidesPhoto, photo, isEditingPhoto, photoDB>>

\* deletePhotoFromDB settles: a failure is caught and logged; the handler
\* then does setPhoto(""); setIsEditingPhoto(true)
deletePhotoFromDB(o, ok) ==
  /\ o \in photoOps /\ o.op = "delete"
  /\ photoDB' = IF ok THEN Remove(photoDB, o.key) ELSE photoDB
  /\ photo' = ""
  /\ isEditingPhoto' = TRUE
  /\ photoOps' = photoOps \ {o}
  /\ h' = Completed("deletePhotoFromDB", o, ok)
  /\ UNCHANGED besidesPhoto

\* getPhotoFromDB settles with the blob, or with "" after a caught failure;
\* the form effect then does setPhoto(p || ""); setIsEditingPhoto(!p)
getPhotoFromDB(o, ok) ==
  /\ o \in photoOps /\ o.op = "get"
  /\ photo' = IF ok THEN Blob(photoDB, o.key) ELSE ""
  /\ isEditingPhoto' = (photo' = "")
  /\ photoOps' = photoOps \ {o}
  /\ h' = Completed("getPhotoFromDB", o, ok)
  /\ UNCHANGED <<besidesPhoto, photoDB>>

\* photos are added, replaced and deleted while dates are selected
NextPhoto ==
  \/ \E d \in Dates : onSelect(d)
  \/ \E u \in DataUrls : handlePhotoUpload(u)
  \/ \E o \in photoOps : readerOnload(o)
  \/ editPhoto
  \/ handlePhotoDelete
  \/ \E o \in photoOps, ok \in BOOLEAN : savePhotoToDB(o, ok)
  \/ \E o \in photoOps, ok \in BOOLEAN : deletePhotoFromDB(o, ok)
  \/ \E o \in photoOps, ok \in BOOLEAN : getPhotoFromDB(o, ok)

\* a session that never has more than MaxPending operations in flight
NextPhotoFewPending == NextPhoto /\ Cardinality(photoOps') <= MaxPending

SpecPhoto == InitCalendar /\ [][NextPhotoFewPending]_vars

-----------------------------------------------------------------------------
(* The calendar cell of a day: renderDay *)

\* calendar.tsx: dayTodos = Array.isArray(l.todos) ? l.todos : [];
\* todoAllDone = dayTodos.length > 0 && dayTodos.every(t => t.done)
todoAllDone(m, d) ==
  LET dayTodos == TodosOf(LogOf(m, dayKey(d)))
  IN Len(dayTodos) > 0 /\ AllDone(dayTodos)

\* App.tsx: todoDone = l?.todos && l.todos.length > 0 && l.todos.every(t => t.done)
\* (an undefined todoDone renders as a false one)
App_todoDone(m, d) ==
  /\ Has(m, dayKey(d))
  /\ "todos" \in At(m, dayKey(d)).has
  /\ Len(At(m, dayKey(d)).todos) > 0
  /\ AllDone(At(m, dayKey(d)).todos)

\* calendar.tsx: cleaning = l.cleaning || {};
\* hasCleaning = Object.keys(cleaning).length > 0;
\* allAreasDone = AREA_LIST.every(a => cleaning[a]);
\* {hasCleaning && (allAreasDone ? full mark : partial mark)}
cleaningMark(m, d) ==
  LET cleaning == CleaningOf(LogOf(m, dayKey(d)))
      hasCleaning == Len(cleaning) > 0
      allAreasDone == \A i \in DOMAIN AREA_LIST :
                        Has(cleaning, AREA_LIST[i]) /\ At(cleaning, AREA_LIST[i])
  IN IF ~hasCleaning THEN "none" ELSE IF allAreasDone THEN "full" ELSE "partial"

\* the star the mounted root draws in the cell of day d
Star(m, d) == IF root = "calendar" THEN todoAllDone(m, d) ELSE App_todoDone(m, d)

-----------------------------------------------------------------------------
(* Date objects.  A Date is an instant; here the number of hours of local   *)
(* time since Dec 30 2023 00:00.  Its local calendar fields are computed    *)
(* from the count of whole days, by the Gregorian rules.                    *)

EpochDay == [y |-> 2023, m |-> 12, d |-> 30]

\* the hours of the day at which a Date is taken
Hours == {0, 11, 23}

\* the Dates of the day-key specification
Instants == { day * 24 + hour : day \in 0..MaxDay, hour \in Hours }

DaysInYear(y) == IF IsLeap(y) THEN 366 ELSE 365

\* days from Jan 1 2023 to Jan 1 of year y
RECURSIVE DaysBeforeYear(_)
DaysBeforeYear(y) == IF y <= 2023 THEN 0 ELSE DaysInYear(y - 1) + DaysBeforeYear(y - 1)

\* days from Jan 1 of year y to the first of month m
RECURSIVE DaysBeforeMonth(_, _)
DaysBeforeMonth(y, m) ==
  IF m <= 1 THEN 0 ELSE DaysInMonth(y, m - 1) + DaysBeforeMonth(y, m - 1)

\* the position of calendar day c, counted from Dec 31 2022
Ordinal(c) == DaysBeforeYear(c.y) + DaysBeforeMonth(c.y, c.m) + c.d

CivilDays ==
  { c \in [y : 2023..2024, m : 1..12, d : 1..31] : c.d <= DaysInMonth(c.y, c.m) }

\* the calendar day that lies n days after the first one
CalendarDay == [n \in 0..(MaxDay + 1) |->
                 CHOOSE c \in CivilDays : Ordinal(c) = Ordinal(EpochDay) + n]

\* getFullYear(), getMonth() + 1, getDate() of the Date t
LocalDay(t) == CalendarDay[t \div 24]

\* t.toDateString()
toDateString(t) == dayKey(LocalDay(t))

\* dayKey(tomorrow) where tomorrow = new Date(t) with setDate(getDate() + 1)
tomorrowKey(t) == dayKey(Tomorrow(LocalDay(t)))

\* two Dates are at hand when the app has mounted
InitDayKey ==
  \E r \in {"calendar", "App"}, a \in Instants, b \in Instants :
    /\ MountedApp(r, FirstVisit)
    /\ h = HI("dates", <<a, b>>, 0, TRUE, FALSE, FALSE)

\* the keys of the two Dates, and the carry-over destination of the first, are
\* computed
dayKeys ==
  /\ h.op = "dates"
  /\ LET a == h.input[1]
         b == h.input[2]
     IN h' = HI("dayKey", <<a, b, toDateString(a), toDateString(b), tomorrowKey(a)>>,
                0, TRUE, FALSE, FALSE)
  /\ UNCHANGED <<root, date, logs, monthGoalsAll, localStorage, showGoalSetup,
                 currentTodos, expenseItems, cleaningState, memo, circle, photoVars,
                 clock, failures>>

NextDayKey == dayKeys

SpecDayKey == InitDayKey /\ [][NextDayKey]_vars

-----------------------------------------------------------------------------
(* Rendering a progress circle *)

\* the values a circle is rendered with (typed steps or minutes):
\* -60, -0.5, 0, 0.5, 1, 4, 10, 60, 120, 130, 240
CircleValues == { -120, -1, 0, 1, 2, 8, 20, 120, 240, 260, 480 }

\* the goals a circle is rendered with: -4, 0, 1, 8, 120, 10000
CircleGoals ==
  { FromInt(-4), 0, FromInt(1), FromInt(8), FromInt(STUDY_GOAL_DEFAULT),
    FromInt(STEPS_GOAL_DEFAULT) }

\* <ProgressCircle value={...} goal={...} /> of calendar.tsx is rendered
renderCircle(value, goal) ==
  /\ Running("calendar")
  /\ circle' = ProgressCircle(value, goal)
  /\ h' = HI("renderCircle", <<value, goal>>, 0, TRUE, FALSE, FALSE)
  /\ UNCHANGED <<root, date, logs, localStorage, monthGoalsAll, showGoalSetup,
                 currentTodos, expenseItems, cleaningState, memo, photoVars, clock,
                 failures>>

\* <ProgressCircle value={...} goal={...} /> of App.tsx is rendered
App_renderCircle(value, goal) ==
  /\ Running("App")
  /\ circle' = App_ProgressCircle(value, goal)
  /\ h' = HI("App_renderCircle", <<value, goal>>, 0, TRUE, FALSE, FALSE)
  /\ UNCHANGED <<root, date, logs, localStorage, monthGoalsAll, showGoalSetup,
                 currentTodos, expenseItems, cleaningState, memo, photoVars, clock,
                 failures>>

NextCircle ==
  \/ \E v \in CircleValues, g \in CircleGoals : renderCircle(v, g)
  \/ \E v \in CircleValues, g \in CircleGoals : App_renderCircle(v, g)

SpecCircle == Init /\ [][NextCircle]_vars

-----------------------------------------------------------------------------
(* The step chart, calendar.tsx *)

\* .slice(-60)
CHART_LIMIT == 60

\* the first day of a stored history, Oct 30 2023, and its greatest length
HistoryStart == [y |-> 2023, m |-> 10, d |-> 30]
MaxHistory == 61

\* the log of the i-th day of a history: every third day holds a memo and no
\* steps, the others hold i steps
HistoryLog(i) ==
  IF i % 3 = 0 THEN MemoPartial("memo") ELSE StepsPartial(FromInt(i))

\* a store written on n consecutive days from day d, the i-th day first
RECURSIVE History(_, _, _)
History(d, i, n) ==
  IF n = 0 THEN <<>>
  ELSE <<[k |-> dayKey(d), v |-> HistoryLog(i)]>> \o History(Tomorrow(d), i + 1, n - 1)

\* s.slice(0, n), a slice from the wrong end
SliceLast_first(s, n) == IF Len(s) <= n THEN s ELSE SubSeq(s, 1, n)

\* s.slice(-n)
SliceLast(s, n) == IF Len(s) <= n THEN s ELSE SubSeq(s, Len(s) - n + 1, Len(s))

\* Number(v.steps) || 0
StepsOf(l) == IF "steps" \in l.has THEN l.steps ELSE 0

\* { name: k.slice(4, 10), steps: Number(v.steps) || 0 }: the name is the
\* month and day of the key
ChartPoint(e) == [name |-> <<e.k[2], e.k[3]>>, steps |-> StepsOf(e.v)]

\* Object.entries(logs).map(...).slice(-60)
chartData(m) == SliceLast([i \in DOMAIN m |-> ChartPoint(m[i])], CHART_LIMIT)

\* the app is opened over a store of up to MaxHistory days
InitChart ==
  \E n \in 0..MaxHistory :
    Mounted("calendar",
            [FirstVisit EXCEPT ![STORAGE_LOGS] =
               Stored(JSONstringify(History(HistoryStart, 1, n)))])

\* steps are saved and dates selected over that store
NextChart ==
  \/ \E d \in Dates : onSelect(d)
  \/ \E s \in {Text, Num(5)} : saveSteps(s)

SpecChart == InitChart /\ [][NextChart]_vars

-----------------------------------------------------------------------------
(* Startup over stored data *)

\* what a slot may hold when the app starts
SlotContents ==
  { NoItem, Junk("malformed"), Junk("null"), Junk("number"), Junk("list"),
    Stored(JSONstringify(History(HistoryStart, 1, 1))) }

\* the app is opened over any content of the two slots its root reads
InitStartup ==
  \E r \in {"calendar", "App"}, l \in SlotContents, g \in SlotContents :
    Mounted(r, [FirstVisit EXCEPT ![LogsSlot(r)] = l, ![STORAGE_MONTH_GOALS] = g])

\* the page is reloaded: the root mounts again over what the slots hold now
\* (the photo store and the clock outlive the page)
reload ==
  /\ date' = Today
  /\ logs' = MountState(root, localStorage).logs
  /\ monthGoalsAll' = MountState(root, localStorage).monthGoalsAll
  /\ showGoalSetup' = MountState(root, localStorage).showGoalSetup
  /\ currentTodos' = MountState(root, localStorage).currentTodos
  /\ expenseItems' = MountState(root, localStorage).expenseItems
  /\ cleaningState' = MountState(root, localStorage).cleaningState
  /\ memo' = MountState(root, localStorage).memo
  /\ circle' = MountState(root, localStorage).circle
  /\ photo' = ""
  /\ isEditingPhoto' = TRUE
  /\ photoOps' = MountState(root, localStorage).photoOps
  /\ h' = MountState(root, localStorage).h
  /\ UNCHANGED <<root, localStorage, photoDB, clock, failures>>

\* after startup steps and to-dos are saved, and the page is reloaded
NextStartup ==
  \/ reload
  \/ \E s \in {Num(5)} : saveSteps(s)
  \/ \E t \in {<<"a">>} : App_addTodo(t)

SpecStartup == InitStartup /\ [][NextStartup]_vars

-----------------------------------------------------------------------------
(* Month goals, calendar.tsx *)

\* what the user may have typed into a goal box:
\* "", "abc", "0", "-3", "0.5", "2.5", "2"
GoalInputs == { Empty, Text, Num(0), Num(-6), Num(1), Num(5), Num(4) }

\* Math.floor(Number(input) || dflt), without the lower clamp
GoalFromInput_noMax(input, dflt) ==
  MathFloor(OrElse(Number(input), Val(FromInt(dflt)))).n

\* Math.max(1, Math.floor(Number(input) || dflt))
GoalFromInput(input, dflt) ==
  MathMax(Val(FromInt(1)), MathFloor(OrElse(Number(input), Val(FromInt(dflt))))).n

\* monthGoals?.stepsGoal ?? DEFAULT_GOALS.stepsGoal
stepsGoal(goals, d) ==
  IF Has(goals, monthKey(d)) THEN At(goals, monthKey(d)).stepsGoal
  ELSE FromInt(DEFAULT_GOALS.stepsGoal)

\* monthGoals?.studyGoal ?? DEFAULT_GOALS.studyGoal
studyGoal(goals, d) ==
  IF Has(goals, monthKey(d)) THEN At(goals, monthKey(d)).studyGoal
  ELSE FromInt(DEFAULT_GOALS.studyGoal)

\* onClick={() => setShowGoalSetup(true)}   ("edit goals" buttons)
editGoals ==
  /\ Running("calendar")
  /\ showGoalSetup' = TRUE
  /\ h' = Returned("editGoals")
  /\ UNCHANGED <<root, date, logs, monthGoalsAll, localStorage, currentTodos,
                 clock, failures, expenseItems, cleaningState, memo, aside, photoOps>>

\* nextAll = { ...monthGoalsAll, [mk]: { stepsGoal, studyGoal } }
saveMonthGoalsNext(goals, d, s, t) ==
  Put(goals, monthKey(d),
      [stepsGoal |-> GoalFromInput(s, DEFAULT_GOALS.stepsGoal),
       studyGoal |-> GoalFromInput(t, DEFAULT_GOALS.studyGoal)])

\* saveMonthGoals: setMonthGoalsAll(nextAll); setItem (not guarded: a failing
\* write throws and skips setShowGoalSetup(false)); then the
\* [mk, monthGoalsAll] effect runs because the goals object changed
saveMonthGoals(s, t) ==
  /\ Running("calendar")
  /\ showGoalSetup
  /\ \E ok \in BOOLEAN :
       /\ WriteOutcome(ok)
       /\ monthGoalsAll' = saveMonthGoalsNext(monthGoalsAll, date, s, t)
       /\ localStorage' = setItem(localStorage, STORAGE_MONTH_GOALS, monthGoalsAll', ok)
       /\ showGoalSetup' = GoalEffect(TRUE, IF ok THEN FALSE ELSE showGoalSetup,
                                      monthGoalsAll', date)
       /\ h' = HI("saveMonthGoals", <<s, t>>, 1, ok, FALSE, ~ok)
  /\ UNCHANGED <<root, date, logs, currentTodos, clock, expenseItems,
                 cleaningState, memo, aside, photoOps>>

-----------------------------------------------------------------------------
(* Specifications of the calendar.tsx root alone *)

\* goal setup and date selection
NextGoals ==
  \/ \E d \in Dates : onSelect(d)
  \/ editGoals
  \/ \E s \in GoalInputs, t \in GoalInputs : saveMonthGoals(s, t)

SpecGoals == InitCalendar /\ [][NextGoals]_vars

\* field-by-field saves of the day log, next to goal saves
NextDay ==
  \/ \E d \in Dates : onSelect(d)
  \/ \E t \in {<<"a">>} : addTodo(t)
  \/ \E n \in {Num(5)} : saveSteps(n)
  \/ \E m \in {"memo"} : saveMemo(m)
  \/ \E s \in {Num(4)}, t \in {Num(-6)} : saveMonthGoals(s, t)

NextDayPromptly == NextDay /\ Promptly

SpecDay == InitCalendar /\ [][NextDayPromptly]_vars

\* the form is filled in and saved, field by field, on the days selected
NextForm ==
  \/ \E d \in Dates : onSelect(d)
  \/ \E d \in Dates : App_onSelect(d)
  \/ \E m \in MemoInputs : setMemo(m)
  \/ \E m \in MemoInputs : App_setMemo(m)
  \/ \E m \in MemoInputs : saveMemo(m)
  \/ App_saveMemo
  \/ \E t \in {<<"a">>} : addTodo(t)
  \/ \E t \in {<<"a">>} : App_addTodo(t)
  \/ carryOverTodosToTomorrow
  \/ App_carryOverTodos
  \/ \E n \in {<<"a">>} : addExpenseItem(Num(12), n)
  \/ \E n \in {<<"a">>} : App_addExpense(Num(12), n)
  \/ \E area \in {AREA_LIST[1]} : toggleArea(area)

\* a short session whose writes succeed, with few items stored
NextFormPromptly ==
  /\ NextForm
  /\ Promptly
  /\ Durably
  /\ TotalTodos(logs') + TotalExpenses(logs') <= FewTodos

SpecForm == Init /\ [][NextFormPromptly]_vars

\* every handler of both roots
Next ==
  \/ NextTodo
  \/ NextGoals
  \/ \E n \in StepsInputs : saveSteps(n)
  \/ \E m \in MemoInputs : saveMemo(m)
  \/ \E m \in MemoInputs : setMemo(m)
  \/ \E m \in MemoInputs : App_setMemo(m)
  \/ App_saveMemo
  \/ NextExpenseWith(Dates, AmountInputs, NoteInputs)
  \/ \E area \in Areas : toggleArea(area)
  \/ resetCleaning
  \/ NextPhoto
  \/ NextCircle
  \/ reload

Spec == Init /\ [][Next]_vars

-----------------------------------------------------------------------------
(* Vocabulary of the properties *)

CarryOps == {"carryOverTodosToTomorrow", "App_carryOverTodos"}

DayLogOps ==
  CarryOps \cup {"addTodo", "toggleTodo", "deleteTodo", "App_addTodo", "App_toggleTodo"}

\* the to-do list stored for day d in mapping m
StoredTodos(m, d) == TodosOf(LogOf(m, dayKey(d)))

\* what a reload would read from the day-log slot
Snapshot == safeParse(localStorage[LogsSlot(root)])

\* the item at position i is a pending copy of item t
IsCarriedCopy(list, i, t) == list[i].text = t.text /\ ~list[i].done

-----------------------------------------------------------------------------
(* Carry-over *)

\* C1: a carry-over from the selected day D with N >= 1 pending items leaves D
\* with exactly its done items in their order, leaves D+1 with its prior list
\* followed by N pending items carrying the pending texts in order, and keeps
\* the total number of to-dos over all days.
C1_CarryMovesPending ==
  [][ (h'.op \in CarryOps /\ Len(Pending(StoredTodos(logs, date))) > 0) =>
        LET src == StoredTodos(logs, date)
            dst == StoredTodos(logs, Tomorrow(date))
            src2 == StoredTodos(logs', date)
            dst2 == StoredTodos(logs', Tomorrow(date))
            N == Len(Pending(src))
        IN /\ src2 = Done(src)
           /\ Len(dst2) = Len(dst) + N
           /\ SubSeq(dst2, 1, Len(dst)) = dst
           /\ \A i \in 1..N : IsCarriedCopy(dst2, Len(dst) + i, Pending(src)[i])
           /\ TotalTodos(logs') = TotalTodos(logs) ]_vars

\* C2: inside every stored day's list the to-do ids are pairwise distinct.
C2_IdsDistinct ==
  \A i \in DOMAIN logs :
    Cardinality(Ids(TodosOf(logs[i].v))) = Len(TodosOf(logs[i].v))

\* C3: a carry-over on a day without pending to-dos changes no key of the
\* in-memory store, creates no entry, and issues no durable write.
C3_CarryNothingIsNoOp ==
  [][ (h'.op \in CarryOps /\ Len(Pending(StoredTodos(logs, date))) = 0) =>
        /\ logs' = logs
        /\ localStorage' = localStorage
        /\ h'.writes = 0
        /\ failures' = failures ]_vars

\* a carry-over was clicked on a day whose only to-dos are done, and neither
\* that day nor the next one was touched
C3_Witness ==
  /\ h.op \in CarryOps
  /\ h.writes = 0
  /\ Len(StoredTodos(logs, date)) > 0
  /\ AllDone(StoredTodos(logs, date))
  /\ ~Has(logs, dayKey(Tomorrow(date)))

\* C4: a carry-over that reaches the durable store leaves a snapshot holding
\* both the removal from D and the append to D+1; one that does not reach it
\* leaves the snapshot as it was.
C4_CarryAtomicInSnapshot ==
  [][ (h'.op \in CarryOps /\ h'.writes = 1) =>
        \/ Snapshot' = Snapshot
        \/ /\ StoredTodos(Snapshot', date) = Done(StoredTodos(logs, date))
           /\ Len(StoredTodos(Snapshot', Tomorrow(date)))
                = Len(StoredTodos(logs, Tomorrow(date)))
                  + Len(Pending(StoredTodos(logs, date))) ]_vars

-----------------------------------------------------------------------------
(* Persistence of the day-log store *)

\* C6: right after a day-log mutation whose durable write succeeded, a reload
\* of the slot yields the in-memory mapping, whatever failed before.
C6_SnapshotEqualsMemory ==
  (h.op \in DayLogOps /\ h.writes = 1 /\ h.ok) => Snapshot = logs

\* a write failed earlier, the last one succeeded, and the store is not empty
C6_Witness ==
  /\ h.op \in DayLogOps
  /\ h.writes = 1
  /\ h.ok
  /\ failures > 0
  /\ Len(logs) > 0
  /\ Snapshot = logs

\* C7: a day-log mutation whose durable write fails still updates the
\* in-memory mapping, raises a warning, does not throw, leaves the snapshot
\* as it was, and issues exactly the one write.
C7_FailedWriteIsAbsorbed ==
  [][ (h'.op \in DayLogOps /\ h'.writes > 0 /\ ~h'.ok) =>
        /\ logs' # logs
        /\ h'.alerted
        /\ ~h'.threw
        /\ localStorage' = localStorage
        /\ h'.writes = 1 ]_vars

-----------------------------------------------------------------------------
(* Field updates of the day log *)

\* the field each updating handler names in its partial
FieldOfOp == [addTodo |-> "todos", saveSteps |-> "steps", saveMemo |-> "memo"]

\* field f is the same (held or not, and its value) in logs a and b
SameField(a, b, f) == (f \in a.has <=> f \in b.has) /\ a[f] = b[f]

\* C5: an update of the selected day replaces the field its partial names and
\* nothing else: the day's other fields, every other day, the month goals and
\* their slot stay as they were; a goal save leaves the day-log mapping and
\* its slot as they were.
C5_UpdateTouchesNamedFieldOnly ==
  [][ /\ (h'.op \in DOMAIN FieldOfOp /\ h'.writes = 1) =>
           LET f == FieldOfOp[h'.op]
               old == LogOf(logs, dayKey(date))
               new == LogOf(logs', dayKey(date))
           IN /\ f \in new.has
              /\ \A g \in Fields \ {f} : SameField(old, new, g)
              /\ \A k \in (Keys(logs) \cup Keys(logs')) \ {dayKey(date)} :
                   Has(logs, k) /\ Has(logs', k) /\ At(logs', k) = At(logs, k)
              /\ monthGoalsAll' = monthGoalsAll
              /\ localStorage'[STORAGE_MONTH_GOALS] = localStorage[STORAGE_MONTH_GOALS]
      /\ (h'.op = "saveMonthGoals") =>
           /\ logs' = logs
           /\ localStorage'[STORAGE_LOGS] = localStorage[STORAGE_LOGS] ]_vars

\* the memo was saved last on a day that already held to-dos and steps, and
\* all three fields are there, next to another day's log and to stored goals
C5_Witness ==
  /\ h.op = "saveMemo"
  /\ LogOf(logs, dayKey(date)).has = {"todos", "steps", "memo"}
  /\ Len(LogOf(logs, dayKey(date)).todos) > 0
  /\ LogOf(logs, dayKey(date)).steps = 5
  /\ Len(logs) > 1
  /\ Len(monthGoalsAll) > 0

-----------------------------------------------------------------------------
(* Month goals *)

\* the goal stored for a typed input: the default for "", a non-number and
\* zero; 1 for a negative number and for a positive one below 1; the input
\* rounded down otherwise
Coerced(input, dflt) ==
  IF input.k # "num" \/ input.n = 0 THEN FromInt(dflt)
  ELSE IF input.n < FromInt(1) THEN FromInt(1)
  ELSE IF IsInteger(input.n) THEN input.n
  ELSE input.n - 1

\* "", a non-number, zero or a negative number
IsNonFiniteOrNonPositive(input) == input.k # "num" \/ input.n <= 0

IsPositiveInteger(input) == input.k = "num" /\ input.n > 0 /\ IsInteger(input.n)

\* the goals stored for the selected month
monthGoals == At(monthGoalsAll, monthKey(date))

C9_GoalsArePositiveIntegers ==
  /\ \A i \in DOMAIN monthGoalsAll :
       /\ IsInteger(monthGoalsAll[i].v.stepsGoal)
       /\ monthGoalsAll[i].v.stepsGoal >= FromInt(1)
       /\ IsInteger(monthGoalsAll[i].v.studyGoal)
       /\ monthGoalsAll[i].v.studyGoal >= FromInt(1)
  /\ stepsGoal(monthGoalsAll, date) > 0
  /\ studyGoal(monthGoalsAll, date) > 0

\* "2.5" and "0.5" were typed: 2 and 1 are stored
C9_Witness ==
  /\ h.op = "saveMonthGoals"
  /\ h.input = <<Num(5), Num(1)>>
  /\ monthGoals = [stepsGoal |-> FromInt(2), studyGoal |-> FromInt(1)]

\* C10: while the selected month has no stored goals the prompt is shown and
\* the goals in use are the defaults 10000 / 120; and the prompt of such a
\* month goes away, with that month still selected, only by a goal save that
\* stores goals for it.
C10_PromptUntilGoalsSaved ==
  /\ [](~Has(monthGoalsAll, monthKey(date)) =>
          /\ showGoalSetup
          /\ stepsGoal(monthGoalsAll, date) = FromInt(STEPS_GOAL_DEFAULT)
          /\ studyGoal(monthGoalsAll, date) = FromInt(STUDY_GOAL_DEFAULT))
  /\ [][ (~Has(monthGoalsAll, monthKey(date)) /\ date' = date /\ ~showGoalSetup') =>
           /\ h'.op = "saveMonthGoals"
           /\ Has(monthGoalsAll', monthKey(date)) ]_vars

\* goals are stored for December, then January is selected: the prompt is
\* back and the defaults are in use
C10_Witness ==
  /\ h.op = "onSelect"
  /\ Len(monthGoalsAll) > 0
  /\ ~Has(monthGoalsAll, monthKey(date))
  /\ showGoalSetup
  /\ stepsGoal(monthGoalsAll, date) = FromInt(STEPS_GOAL_DEFAULT)

\* C20: a goal save whose durable write fails still updates the in-memory
\* goals, warns the user, does not throw out of the handler, and closes the
\* setup prompt.
C20_FailedGoalWriteIsAbsorbed ==
  [][ (h'.op = "saveMonthGoals" /\ ~h'.ok) =>
        /\ monthGoalsAll' = saveMonthGoalsNext(monthGoalsAll, date, h'.input[1], h'.input[2])
        /\ h'.alerted
        /\ ~h'.threw
        /\ ~showGoalSetup' ]_vars

-----------------------------------------------------------------------------
(* Expense totals *)

\* the expense list stored for the selected day
StoredExpenses == IF Has(logs, dayKey(date)) THEN ExpensesOf(At(logs, dayKey(date))) ELSE <<>>

RECURSIVE SumAmounts(_)
SumAmounts(items) ==
  IF items = <<>> THEN 0 ELSE Head(items).amount + SumAmounts(Tail(items))

\* C11: after any add, edit, delete or date change the displayed day expense
\* total is the sum of the amounts in the selected day's stored expense list,
\* and 0 when that list is empty or absent.
C11_DayTotalIsSumOfStored ==
  /\ expenseTotal(expenseItems) = SumAmounts(StoredExpenses)
  /\ StoredExpenses = <<>> => expenseTotal(expenseItems) = 0

\* amounts 300 and 1200 stored for the selected day give 1500, after an edit
C11_Witness ==
  /\ h.op = "saveEditExpense"
  /\ Len(StoredExpenses) = 2
  /\ StoredExpenses[1].amount = FromInt(300)
  /\ StoredExpenses[2].amount = FromInt(1200)
  /\ expenseTotal(expenseItems) = FromInt(1500)

\* the stored days of the selected date's year and month
DaysOfMonth == { k \in Keys(logs) : k[1] = date.y /\ k[2] = date.m }

RECURSIVE SumDays(_)
SumDays(ks) ==
  IF ks = {} THEN 0
  ELSE LET k == CHOOSE x \in ks : TRUE
       IN SumAmounts(ExpensesOf(At(logs, k))) + SumDays(ks \ {k})

\* C12: the month expense total is the sum of the amounts of exactly the stored
\* days whose year and month are the selected date's.
C12_MonthTotalIsSumOfSameMonth ==
  monthlyExpenseTotal(logs, date) = SumDays(DaysOfMonth)

\* an expense is stored in the same month of another year, and the selected
\* month has expenses of its own
C12_Witness ==
  /\ monthlyExpenseTotal(logs, date) > 0
  /\ \E k \in Keys(logs) :
       k[1] # date.y /\ k[2] = date.m /\ ExpensesOf(At(logs, k)) # <<>>

\* every amount in the store
StoredAmounts ==
  UNION { { ExpensesOf(logs[i].v)[j].amount : j \in DOMAIN ExpensesOf(logs[i].v) } :
          i \in DOMAIN logs }

\* C16: an expense add or edit whose amount is zero, negative, non-numeric or
\* non-finite is skipped, so every stored expense amount is a positive integer.
C16_StoredAmountsArePositiveIntegers ==
  \A a \in StoredAmounts : a > 0 /\ IsInteger(a)

-----------------------------------------------------------------------------
(* Progress circles *)

\* the integer nearest to 100 * value / goal (ties upwards), goal > 0
NearestPercent(value, goal) ==
  CHOOSE p \in -15000..50000 :
    (2 * p - 1) * goal <= 200 * value /\ 200 * value < (2 * p + 1) * goal

C14_FillIsClamped ==
  /\ circle.fill.k = "num"
  /\ 0 <= circle.fill.n /\ circle.fill.n <= 100

-----------------------------------------------------------------------------
(* Step chart *)

\* C15: the step series has one entry per stored day, in the store's order,
\* with the day's steps (0 when absent), cut to the last 60: its length is
\* min(n, 60) and it is a suffix of the full series.
C15_ChartIsLast60 ==
  LET n == Len(logs)
      c == chartData(logs)
  IN /\ Len(c) = IF n <= CHART_LIMIT THEN n ELSE CHART_LIMIT
     /\ \A i \in 1..Len(c) :
          LET e == logs[n - Len(c) + i]
          IN /\ c[i].name = <<e.k[2], e.k[3]>>
             /\ c[i].steps = IF "steps" \in e.v.has THEN e.v.steps ELSE 0

\* steps were saved on a new day of a store that already held 60 days or more:
\* the series is cut
C15_Witness ==
  /\ h.op = "saveSteps"
  /\ Len(logs) > CHART_LIMIT
  /\ Len(chartData(logs)) = CHART_LIMIT
  /\ chartData(logs)[CHART_LIMIT].name = <<Today.m, Today.d>>

-----------------------------------------------------------------------------
(* Startup *)

\* the slots the mounted root reads at startup
SlotsRead == IF root = "calendar" THEN {STORAGE_LOGS, STORAGE_MONTH_GOALS} ELSE {STORAGE_KEY}

\* what the root holds for a slot it read
Loaded(slot) == IF slot = STORAGE_MONTH_GOALS THEN monthGoalsAll ELSE logs

\* C17: at startup a slot that is missing, unparseable, or valid JSON that is
\* not a mapping (null, a number, a list) gives the empty mapping, and startup
\* does not fail.
C17_StartupSurvivesBadSlots ==
  h.op = "mount" =>
    /\ ~h.threw
    /\ \A slot \in SlotsRead :
         localStorage[slot].kind # "object" => Loaded(slot) = <<>>

-----------------------------------------------------------------------------
(* Day-log keys *)

\* the handlers that write a field of a day
WriteOps ==
  DayLogOps \cup {"saveSteps", "saveMemo", "addExpenseItem", "saveEditExpense",
                 "deleteExpenseItem", "App_addExpense", "toggleArea", "resetCleaning",
                 "App_saveMemo"}

\* C18: a day-log key is created only by a handler that writes a field of that
\* day (the selected day, or the next day for a carry-over); no handler removes
\* a key, and selecting a date adds none.
C18_KeysOnlyGrowByWrites ==
  [][ /\ Keys(logs) \subseteq Keys(logs')
      /\ Keys(logs') # Keys(logs) =>
           /\ h'.op \in WriteOps
           /\ Keys(logs') \ Keys(logs) \subseteq
                IF h'.op \in CarryOps THEN {dayKey(date), dayKey(Tomorrow(date))}
                ELSE {dayKey(date)}
      /\ h'.op \in {"onSelect", "App_onSelect"} => logs' = logs ]_vars

\* a day whose only expense was deleted keeps its key, and selecting the next
\* day has added none
C18_Witness ==
  /\ h.op = "onSelect"
  /\ date = Tomorrow(Today)
  /\ Keys(logs) = {dayKey(Today)}
  /\ At(logs, dayKey(Today)).has = {"expenses"}
  /\ ExpensesOf(At(logs, dayKey(Today))) = <<>>

-----------------------------------------------------------------------------
(* Photos *)

\* C19: the visible photo changes only when the storage call it depends on has
\* settled, and only to what a successful call left in the store: an upload
\* shows nothing before its write settles, a failed write leaves no photo
\* shown, and a failed delete keeps the photo shown.
C19_PhotoFollowsCompletedOperation ==
  [][ /\ h'.op = "readerOnload" => photo' = photo
      /\ (h'.op = "savePhotoToDB" /\ ~h'.ok) => photo' = ""
      /\ (h'.op = "deletePhotoFromDB" /\ ~h'.ok) => photo' = photo ]_vars

-----------------------------------------------------------------------------
(* Day keys *)

\* C21: two Dates have the same day key exactly when they lie on the same
\* local calendar day, whatever their time of day, and the carry-over
\* destination key is the key of the calendar day that follows the selected
\* one, across month and year ends.
C21_KeyIsTheCalendarDay ==
  h.op = "dayKey" =>
    LET a == h.input[1]
        b == h.input[2]
    IN /\ (a \div 24 = b \div 24) <=> (h.input[3] = h.input[4])
       /\ h.input[5] = dayKey(CalendarDay[(a \div 24) + 1])

\* 11:00 and 23:00 of Dec 31 2023 share a key, and the day after is Jan 1 2024
C21_Witness ==
  /\ h.op = "dayKey"
  /\ h.input[1] = 24 + 11 /\ h.input[2] = 24 + 23
  /\ h.input[3] = <<2023, 12, 31>> /\ h.input[4] = <<2023, 12, 31>>
  /\ h.input[5] = <<2024, 1, 1>>

-----------------------------------------------------------------------------
(* Calendar cells *)

\* C22: the cell of a day shows the all-done star exactly when the day's
\* stored to-do list is non-empty with every item done; so a carry-over from a
\* day that had a done and a pending item leaves the star on that day.
C22_StarIffAllDone ==
  /\ [](\A d \in Dates :
          Star(logs, d) <=> (StoredTodos(logs, d) # <<>> /\ AllDone(StoredTodos(logs, d))))
  /\ [][ ( /\ h'.op \in CarryOps
           /\ Done(StoredTodos(logs, date)) # <<>>
           /\ Pending(StoredTodos(logs, date)) # <<>> )
         => Star(logs', date) ]_vars

\* the areas flagged done in the stored cleaning map of day d
DoneAreas(d) ==
  LET c == CleaningOf(LogOf(logs, dayKey(d)))
  IN { a \in Areas : Has(c, a) /\ At(c, a) }

\* C25: the cell of a day shows the full mark exactly when all eight areas are
\* flagged done, the partial mark exactly when some but not all are, and no
\* mark when none is; the stored cleaning map holds only keys of the area set.
C25_MarkCountsDoneAreas ==
  \A d \in Dates :
    /\ cleaningMark(logs, d) = "full" <=> DoneAreas(d) = Areas
    /\ cleaningMark(logs, d) = "partial" <=> (DoneAreas(d) # {} /\ DoneAreas(d) # Areas)
    /\ cleaningMark(logs, d) = "none" <=> DoneAreas(d) = {}
    /\ Keys(CleaningOf(LogOf(logs, dayKey(d)))) \subseteq Areas

\* C23: once every pending asynchronous operation has completed, the photo
\* shown is the blob stored for the selected day, or none when nothing is
\* stored for it: never a blob read or uploaded for a day selected before.
C23_PhotoIsOfSelectedDay ==
  (Running("calendar") /\ photoOps = {}) => photo = Blob(photoDB, dayKey(date))

(* The form *)

\* C24: after a date selection or a day-log mutation the form's working lists
\* (to-dos, expense items, cleaning flags) and its memo field equal the stored
\* values of the selected day; unsaved input is reset by any day-log mutation.
C24_FormShowsSelectedDay ==
  [][ (date' # date \/ logs' # logs) =>
        LET l == LogOf(logs', dayKey(date'))
        IN /\ currentTodos' = TodosOf(l)
           /\ expenseItems' = ExpensesOf(l)
           /\ (root = "calendar" => cleaningState' = CleaningOf(l))
           /\ memo' = (IF "memo" \in l.has THEN l.memo ELSE "") ]_vars

=============================================================================
